---- MODULE Spec2Model ----
(***************************************************************************)
(* PredictionUseCase of predictive-code-ai: the autoregressive forecast    *)
(* (predict_single / predict_sequence / predict_from_csv) and the          *)
(* evaluation of a forecast (evaluate_predictions / _assess_accuracy /     *)
(* _get_metric_score), src/src/application/use_cases/                      *)
(* prediction_use_case.py.                                                 *)
(*                                                                         *)
(* Samples of the series are small integers standing for the floats of    *)
(* the source.  A forecast is one call; the for-loop of predict_sequence   *)
(* advances one iteration per step, so that the window handed to the       *)
(* model at every iteration is a state of the model.  The floats of        *)
(* evaluate_predictions are binary floats of MantissaBits bits, every      *)
(* operation rounded to nearest.                                           *)
(***************************************************************************)
EXTENDS Integers, Sequences, FiniteSets, TLC

\* ------------------------------------------------------------------ bounds
\* samples are 0..MaxVal
MaxVal == 1
\* the series holds at most MaxLen samples
MaxLen == 3
\* config.input_size is 1..MaxInput
MaxInput == 2
\* prediction_steps is 0..MaxSteps
MaxSteps == 2
\* the lists evaluate_predictions is called with hold at most MaxEval values
MaxEval == 3
\* a float has MantissaBits significant bits (binary64 has 53)
MantissaBits == 9
\* config.max_epochs is 0..MaxEpochs
MaxEpochs == 4
\* config.early_stopping_patience is 0..MaxPatience
MaxPatience == 2
\* the weights of the network in training are 0..MaxWeight
MaxWeight == 3

\* predict_mode displays the first SampleCount predictions
SampleCount == 10

Vals == 0..MaxVal
Modulus == MaxVal + 1

\* all sequences over S of length lo..hi
SeqsOf(S, lo, hi) == UNION {[1..n -> S] : n \in lo..hi}

Min2(a, b) == IF a <= b THEN a ELSE b
Max2(a, b) == IF a >= b THEN a ELSE b

\* ------------------------------------------------------------------ state
VARIABLES
  data,              \* the series _load_csv_data returns for the CSV file
  input_size,        \* self.config.input_size
  model,             \* self.model: the weights of the trained predictor
  pc,                \* "idle" | "loop" | "returned" | "raised"
  op,                \* the public method of the running / last call
  start_index,       \* argument of predict_from_csv
  prediction_steps,  \* argument steps / prediction_steps
  initial_sequence,  \* the caller's list handed to predict_sequence
  current_sequence,  \* local of predict_sequence
  predictions,       \* local of predict_sequence
  windows,           \* every input_sequence handed to self.model, in call order
  error,             \* the exception the call raised, "none" if none
  result,            \* what the call returned to its caller
  evaluated,         \* the two lists evaluate_predictions is called with
  metrics,           \* what evaluate_predictions returned to its caller
  reused,            \* the use case object served a forecast before this one
  assess_input,      \* the arguments _assess_accuracy is called with
  assessment,        \* what _assess_accuracy returned
  training,          \* TrainModelUseCase.train: its config, locals and heap
  cli                \* main.py's predict_mode: its position and its result

vars == <<data, input_size, model, pc, op, start_index, prediction_steps,
          initial_sequence, current_sequence, predictions, windows, error,
          result, evaluated, metrics, reused, assess_input, assessment,
          training, cli>>

assessVars == <<assess_input, assessment>>

NoResult == [kind |-> "none"]
NoMetrics == [kind |-> "none"]
NoLists == <<<<>>, <<>>>>
NoInput == [kind |-> "none"]
NoAssessment == [kind |-> "none"]
NoTraining == [pc |-> "none"]
NoCli == [pc |-> "none"]

\* ---------------------------------------------------------- python lists
\* list[lo:hi] of Python: a negative index counts from the end, an index
\* outside the list is clamped, an empty range gives the empty list
SliceIndex(i, len) == IF i < 0 THEN Max2(i + len, 0) ELSE Min2(i, len)

PySlice(list, lo, hi) ==
  LET l == SliceIndex(lo, Len(list))
      h == SliceIndex(hi, Len(list))
  IN  IF l < h THEN SubSeq(list, l + 1, h) ELSE <<>>

\* fault variant: the window of the previous call is used again
CopyStale(list) ==
  IF Len(current_sequence) = Len(list) THEN current_sequence ELSE list

\* list.copy(): a new list with the same elements
Copy(list) == list

\* ------------------------------------------------------------ the model
\* The trained network in eval mode under torch.no_grad(): a fixed function
\* of the window.  Its weights are model.bias; a model with model.raises
\* cannot be evaluated on a window whose newest sample is model.bad.  A model
\* with model.oracle has learnt the series without error: at every step of a
\* forecast it returns the sample that follows its window in the series.
RECURSIVE WeightedSum(_, _)
WeightedSum(w, i) == IF i = 0 THEN 0 ELSE i * w[i] + WeightedSum(w, i - 1)

ModelRaises(w) ==
  /\ model.raises
  /\ Len(w) > 0
  /\ w[Len(w)] = model.bad

ModelOutput(w) ==
  IF model.oracle THEN data[start_index + input_size + Len(predictions) + 1]
  ELSE (WeightedSum(w, Len(w)) + model.bias) % Modulus

Models == [bias : {1}, raises : BOOLEAN, bad : {1}, oracle : {FALSE}]

\* fault variant: an exception of the model is swallowed, 0 is predicted
predict_single_swallow(input_sequence) ==
  IF Len(input_sequence) # input_size
  THEN [ok |-> FALSE, error |-> "ValueError: input length", value |-> 0]
  ELSE [ok |-> TRUE, error |-> "none",
        value |-> IF ModelRaises(input_sequence) THEN 0
                  ELSE ModelOutput(input_sequence)]

\* predict_single: the length check, then the model
predict_single(input_sequence) ==
  IF Len(input_sequence) # input_size
  THEN [ok |-> FALSE, error |-> "ValueError: input length", value |-> 0]
  ELSE IF ModelRaises(input_sequence)
  THEN [ok |-> FALSE, error |-> "ModelError", value |-> 0]
  ELSE [ok |-> TRUE, error |-> "none", value |-> ModelOutput(input_sequence)]

\* ------------------------------------------------------- predict_sequence
\* fault variant: the list of the previous call is appended to
NewPredictionsKept == predictions

\* predictions = []
NewPredictions == <<>>

\* fault variant: the prediction enters the window at its front
ShiftWindowFront(cur, next_pred) == <<next_pred>> \o PySlice(cur, 1, Len(cur))

\* current_sequence[1:] + [next_pred]
ShiftWindow(cur, next_pred) == PySlice(cur, 1, Len(cur)) \o <<next_pred>>

\* fault variants: the comparison off by one, either way
StartTooLargeStrict(start) == start + input_size > Len(data)

StartTooLargeEarly(start) == start + input_size + 1 >= Len(data)

\* start_index + self.config.input_size >= len(data)
StartTooLarge(start) == start + input_size >= Len(data)

\* fault variant: the end of the horizon is counted from the start index
ActualValuesEarly(start, steps) ==
  LET actual_end == Min2(start + steps, Len(data))
  IN  PySlice(data, start + input_size, actual_end)

\* the actual values of the forecast horizon, for comparison
ActualValues(start, steps) ==
  LET actual_end == Min2(start + input_size + steps, Len(data))
  IN  PySlice(data, start + input_size, actual_end)

\* fault variant: the shifted window is stored as initial_sequence
ForecastResultShifted(initial, preds, start, steps) ==
  [kind |-> "forecast",
   initial_sequence |-> current_sequence,
   predictions |-> preds,
   actual_values |-> ActualValues(start, steps),
   start_index |-> start,
   prediction_steps |-> Len(preds),
   input_size |-> input_size]

\* the dictionary predict_from_csv returns
ForecastResult(initial, preds, start, steps) ==
  [kind |-> "forecast",
   initial_sequence |-> initial,
   predictions |-> preds,
   actual_values |-> ActualValues(start, steps),
   start_index |-> start,
   prediction_steps |-> Len(preds),
   input_size |-> input_size]

\* raise e: the call ends without a return value
Raise(e) ==
  /\ pc' = "raised"
  /\ error' = e
  /\ result' = NoResult

\* fault variant: only a sequence that is too short is rejected
InitialLengthWrongShort(initial) == Len(initial) < input_size

\* len(initial_sequence) != self.config.input_size
InitialLengthWrong(initial) == Len(initial) # input_size

EnterLoop(initial, steps) ==
  IF InitialLengthWrong(initial)
  THEN /\ Raise("ValueError: initial length")
       /\ current_sequence' = <<>>
       /\ predictions' = <<>>
  ELSE /\ pc' = "loop"
       /\ error' = "none"
       /\ result' = NoResult
       /\ predictions' = NewPredictions
       /\ current_sequence' = Copy(initial)

\* whether this object has run a forecast before the call now starting
ServedBefore == op # "none"

\* predict_sequence(initial_sequence, steps), called directly
predict_sequence(initial, steps) ==
  /\ pc # "loop"
  /\ op' = "predict_sequence"
  /\ start_index' = 0
  /\ prediction_steps' = steps
  /\ initial_sequence' = initial
  /\ windows' = <<>>
  /\ metrics' = NoMetrics
  /\ evaluated' = NoLists
  /\ EnterLoop(initial, steps)
  /\ reused' = ServedBefore
  /\ UNCHANGED assessVars
  /\ UNCHANGED <<training, cli>>
  /\ UNCHANGED <<data, input_size, model>>

\* predict_from_csv(csv_file, start_index, prediction_steps), up to the
\* loop of the predict_sequence it calls
predict_from_csv(start, steps) ==
  /\ pc # "loop"
  /\ op' = "predict_from_csv"
  /\ start_index' = start
  /\ prediction_steps' = steps
  /\ windows' = <<>>
  /\ metrics' = NoMetrics
  /\ evaluated' = NoLists
  /\ IF StartTooLarge(start)
     THEN /\ Raise("ValueError: start index too large")
          /\ initial_sequence' = <<>>
          /\ current_sequence' = <<>>
          /\ predictions' = <<>>
     ELSE /\ initial_sequence' = PySlice(data, start, start + input_size)
          /\ EnterLoop(PySlice(data, start, start + input_size), steps)
  /\ reused' = ServedBefore
  /\ UNCHANGED assessVars
  /\ UNCHANGED <<training, cli>>
  /\ UNCHANGED <<data, input_size, model>>

\* fault variant: the loop runs once more
RangeExhaustedLate == Len(predictions) > prediction_steps

\* range(steps) has no further element
RangeExhausted == Len(predictions) >= prediction_steps

\* one iteration of: for _ in range(steps)
loop_iteration ==
  /\ pc = "loop"
  /\ ~RangeExhausted
  /\ LET next_pred == predict_single(current_sequence)
     IN  /\ windows' = IF next_pred.error = "ValueError: input length"
                        THEN windows
                        ELSE Append(windows, current_sequence)
         /\ IF next_pred.ok
            THEN /\ predictions' = Append(predictions, next_pred.value)
                 /\ current_sequence' =
                      ShiftWindow(current_sequence, next_pred.value)
                 /\ UNCHANGED <<pc, error, result>>
            ELSE /\ Raise(next_pred.error)
                 /\ UNCHANGED <<predictions, current_sequence>>
  /\ UNCHANGED <<data, input_size, model, op, start_index, prediction_steps,
                 initial_sequence, evaluated, metrics, reused>>
  /\ UNCHANGED assessVars
  /\ UNCHANGED <<training, cli>>

\* the loop is over: predict_sequence returns predictions, and
\* predict_from_csv builds its dictionary around them
forecast_return ==
  /\ pc = "loop"
  /\ RangeExhausted
  /\ pc' = "returned"
  /\ result' = IF op = "predict_from_csv"
               THEN ForecastResult(initial_sequence, predictions,
                                   start_index, prediction_steps)
               ELSE [kind |-> "list", predictions |-> predictions]
  /\ UNCHANGED <<data, input_size, model, op, start_index, prediction_steps,
                 initial_sequence, current_sequence, predictions, windows,
                 error, evaluated, metrics, reused>>
  /\ UNCHANGED assessVars
  /\ UNCHANGED <<training, cli>>

\* ------------------------------------------------------------- numbers
\* The floats of evaluate_predictions.  A finite float is m * 2^e with an
\* integer mantissa m of exactly MantissaBits bits (or m = 0, e = 0); the
\* other floats are NaN and the two infinities.  Every operation computes
\* the exact result and rounds it to the nearest float, ties to the even
\* mantissa, as IEEE 754 arithmetic does.  The exponent range is not
\* limited and zero has no sign.
Abs(i) == IF i < 0 THEN -i ELSE i
Sign(i) == IF i < 0 THEN -1 ELSE IF i = 0 THEN 0 ELSE 1

\* the integer square root, rounded down
RECURSIVE ISqrt(_)
ISqrt(n) ==
  IF n < 2 THEN n
  ELSE LET r == 2 * ISqrt(n \div 4)
       IN  IF (r + 1) * (r + 1) <= n THEN r + 1 ELSE r

RECURSIVE Pow2(_)
Pow2(e) == IF e = 0 THEN 1 ELSE 2 * Pow2(e - 1)

\* the mantissa m of a float other than zero has MantissaLow <= |m| <
\* MantissaLimit
MantissaLow == Pow2(MantissaBits - 1)
MantissaLimit == Pow2(MantissaBits)

Finite(m, e) == [k |-> "fin", m |-> m, e |-> e]
NaN == [k |-> "nan", m |-> 0, e |-> 0]
PosInf == [k |-> "inf", m |-> 1, e |-> 0]
NegInf == [k |-> "inf", m |-> -1, e |-> 0]

\* a mantissa that has grown to MantissaBits + 1 bits by rounding up
Carry(s, m, e) ==
  IF m = MantissaLimit THEN Finite(s * MantissaLow, e + 1)
  ELSE Finite(s * m, e)

\* the float nearest to s * (n / d) * 2^e, for integers n >= 0 and d > 0
\* and a sign s: the quotient is scaled to MantissaBits bits, by four binary
\* places at a time while it is far off, and rounded by its remainder
RECURSIVE Nearest(_, _, _, _)
Nearest(s, n, d, e) ==
  IF n = 0 THEN Finite(0, 0)
  ELSE IF 16 * n < d * MantissaLow THEN Nearest(s, 16 * n, d, e - 4)
  ELSE IF n < d * MantissaLow THEN Nearest(s, 2 * n, d, e - 1)
  ELSE IF n >= 16 * d * MantissaLimit THEN Nearest(s, n, 16 * d, e + 4)
  ELSE IF n >= d * MantissaLimit THEN Nearest(s, n, 2 * d, e + 1)
  ELSE LET lower == n \div d
           rest == n % d
           up == 2 * rest > d \/ (2 * rest = d /\ lower % 2 = 1)
       IN  Carry(s, IF up THEN lower + 1 ELSE lower, e)

\* the float nearest to the square root of n * 2^e, for an integer n > 0
RECURSIVE SqrtNearest(_, _)
SqrtNearest(n, e) ==
  IF e % 2 # 0 THEN SqrtNearest(2 * n, e - 1)
  ELSE IF n < MantissaLow * MantissaLow THEN SqrtNearest(4 * n, e - 2)
  ELSE LET lower == ISqrt(n)
           up == n > lower * lower + lower
       IN  Carry(1, IF up THEN lower + 1 ELSE lower, e \div 2)

\* the float a decimal literal n/d denotes
Frac(n, d) == Nearest(Sign(n) * Sign(d), Abs(n), Abs(d), 0)
IntNum(i) == Frac(i, 1)
Zero == IntNum(0)
One == IntNum(1)

SignOf(x) == Sign(x.m)
IsZero(x) == x.k = "fin" /\ x.m = 0

NSqrt(x) ==
  IF x.k = "nan" \/ x.m < 0 THEN NaN
  ELSE IF x.k = "inf" \/ x.m = 0 THEN x
  ELSE SqrtNearest(x.m, x.e)

NNeg(x) == [x EXCEPT !.m = -x.m]
NAbs(x) == [x EXCEPT !.m = Abs(x.m)]

\* the sum of two finite floats; an operand more than MantissaBits + 1
\* binary places below the other one is rounded away
FiniteSum(x, y) ==
  IF x.m = 0 THEN y
  ELSE IF y.m = 0 THEN x
  ELSE IF x.e - y.e > MantissaBits + 1 THEN x
  ELSE IF y.e - x.e > MantissaBits + 1 THEN y
  ELSE LET e == IF x.e < y.e THEN x.e ELSE y.e
           n == x.m * Pow2(x.e - e) + y.m * Pow2(y.e - e)
       IN  Nearest(Sign(n), Abs(n), 1, e)

NAdd(x, y) ==
  IF x.k = "nan" \/ y.k = "nan" THEN NaN
  ELSE IF x.k = "inf"
  THEN (IF y.k = "inf" /\ SignOf(x) # SignOf(y) THEN NaN ELSE x)
  ELSE IF y.k = "inf" THEN y
  ELSE FiniteSum(x, y)

NSub(x, y) == NAdd(x, NNeg(y))

NMul(x, y) ==
  IF x.k = "nan" \/ y.k = "nan" THEN NaN
  ELSE IF x.k = "inf" \/ y.k = "inf"
  THEN (IF IsZero(x) \/ IsZero(y) THEN NaN
        ELSE IF SignOf(x) * SignOf(y) > 0 THEN PosInf ELSE NegInf)
  ELSE Nearest(SignOf(x) * SignOf(y), Abs(x.m * y.m), 1, x.e + y.e)

\* x / y of numpy floats: no exception, 0/0 is NaN and x/0 an infinity
NDiv(x, y) ==
  IF x.k = "nan" \/ y.k = "nan" THEN NaN
  ELSE IF x.k = "inf"
  THEN (IF y.k = "inf" THEN NaN
        ELSE IF SignOf(x) * (IF IsZero(y) THEN 1 ELSE SignOf(y)) > 0
        THEN PosInf ELSE NegInf)
  ELSE IF y.k = "inf" THEN Finite(0, 0)
  ELSE IF IsZero(y)
  THEN (IF IsZero(x) THEN NaN
        ELSE IF SignOf(x) > 0 THEN PosInf ELSE NegInf)
  ELSE Nearest(SignOf(x) * SignOf(y), Abs(x.m), Abs(y.m), x.e - y.e)

\* 1 - x
OneMinus(x) == NSub(One, x)

\* x >= y for finite floats of one sign s > 0, or of no sign
MagnitudeGeq(x, y) ==
  IF y.m = 0 THEN TRUE
  ELSE IF x.m = 0 THEN FALSE
  ELSE x.e > y.e \/ (x.e = y.e /\ Abs(x.m) >= Abs(y.m))

\* x >= y for two floats that are numbers
OrderedGeq(x, y) ==
  IF x.k = "inf" /\ y.k = "inf" THEN SignOf(x) >= SignOf(y)
  ELSE IF x.k = "inf" THEN SignOf(x) > 0
  ELSE IF y.k = "inf" THEN SignOf(y) < 0
  ELSE IF SignOf(x) # SignOf(y) THEN SignOf(x) > SignOf(y)
  ELSE IF SignOf(x) >= 0 THEN MagnitudeGeq(x, y)
  ELSE MagnitudeGeq(y, x)

\* fault variant: NaN is ordered above every number
NGeqNaNAbove(x, y) ==
  IF x.k = "nan" THEN TRUE
  ELSE IF y.k = "nan" THEN FALSE
  ELSE OrderedGeq(x, y)

\* x >= y; every comparison with NaN is false
NGeq(x, y) ==
  IF x.k = "nan" \/ y.k = "nan" THEN FALSE
  ELSE OrderedGeq(x, y)

NMax(x, y) == IF NGeq(x, y) THEN x ELSE y
NMin(x, y) == IF NGeq(y, x) THEN x ELSE y

\* ------------------------------------------------------------- numpy
\* an array, held element by element
Array(xs) == SubSeq(xs, 1, Len(xs))

\* float(text) of a sample: the lists hold samples counted in tenths, the
\* decimal text of the CSV file, and the array holds the nearest floats
ToFloat(v) == Frac(v, 10)

\* np.array(list)
np_array(list) == Array([i \in DOMAIN list |-> ToFloat(list[i])])

\* the elements of xs from index i on, at every step-th place, added to the
\* float acc from left to right, each addition rounded
RECURSIVE AddFrom(_, _, _, _, _)
AddFrom(acc, xs, i, step, last) ==
  IF i > last THEN acc
  ELSE AddFrom(NAdd(acc, xs[i]), xs, i + step, step, last)

\* np.sum: fewer than eight elements are added from left to right; of eight
\* or more (up to 128), eight interleaved partial sums are kept over the
\* whole blocks of eight, added up in pairs, and the rest is added last
SumSeq(xs) ==
  LET n == Len(xs)
      whole == n - (n % 8)
      r == [j \in 1..8 |-> AddFrom(xs[j], xs, j + 8, 8, whole)]
      res == NAdd(NAdd(NAdd(r[1], r[2]), NAdd(r[3], r[4])),
                  NAdd(NAdd(r[5], r[6]), NAdd(r[7], r[8])))
  IN  IF n < 8 THEN AddFrom(Zero, xs, 1, 1, n)
      ELSE AddFrom(res, xs, whole + 1, 1, n)

\* np.max, np.min: the order of the comparisons does not change the result
RECURSIVE MaxSeq(_)
MaxSeq(xs) ==
  LET n == Len(xs)
      half == n \div 2
  IN  IF n = 1 THEN xs[1]
      ELSE NMax(MaxSeq(SubSeq(xs, 1, half)), MaxSeq(SubSeq(xs, half + 1, n)))

RECURSIVE MinSeq(_)
MinSeq(xs) ==
  LET n == Len(xs)
      half == n \div 2
  IN  IF n = 1 THEN xs[1]
      ELSE NMin(MinSeq(SubSeq(xs, 1, half)), MinSeq(SubSeq(xs, half + 1, n)))

\* the place of xs[i] in the sorted array: after every smaller element and
\* after the equal elements before it
Rank(xs, i) ==
  Cardinality({j \in DOMAIN xs :
                 \/ ~NGeq(xs[j], xs[i])
                 \/ xs[j] = xs[i] /\ j < i}) + 1

\* np.sort of an array of finite floats
Sorted(xs) ==
  Array([k \in DOMAIN xs |-> xs[CHOOSE i \in DOMAIN xs : Rank(xs, i) = k]])

\* np.mean: the sum divided by the count (the caller has Len(xs) > 0)
Mean(xs) == NDiv(SumSeq(xs), IntNum(Len(xs)))

\* x - np.mean(x), elementwise
Centered(xs) ==
  LET m == Mean(xs) IN Array([i \in DOMAIN xs |-> NSub(xs[i], m)])

\* np.sum(x * y)
Dot(xs, ys) == SumSeq(Array([i \in DOMAIN xs |-> NMul(xs[i], ys[i])]))

\* np.var: the population variance, the mean of the squared deviations
Var(xs) ==
  LET x == Centered(xs)
  IN  NDiv(Dot(x, x), IntNum(Len(xs)))

\* the integer part of a finite float x >= 0
Floor(x) ==
  IF x.e >= 0 THEN x.m * Pow2(x.e)
  ELSE IF -x.e >= MantissaBits THEN 0
  ELSE x.m \div Pow2(-x.e)

\* np.percentile(xs, p), method "linear": the order statistics around the
\* virtual index (n - 1) * p / 100, interpolated from the nearer end
Percentile(xs, p) ==
  LET n == Len(xs)
      srt == Sorted(xs)
      virtual_index == NMul(IntNum(n - 1), NDiv(IntNum(p), IntNum(100)))
      previous == Floor(virtual_index)
      gamma == NSub(virtual_index, IntNum(previous))
      a == srt[previous + 1]
      b == srt[Min2(previous + 2, n)]
      diff_b_a == NSub(b, a)
  IN  IF NGeq(gamma, Frac(1, 2))
      THEN NSub(b, NMul(diff_b_a, OneMinus(gamma)))
      ELSE NAdd(a, NMul(diff_b_a, gamma))

\* np.median: the middle order statistic, or the mean of the two middle ones
Median(xs) ==
  LET n == Len(xs)
      srt == Sorted(xs)
  IN  IF n % 2 = 1 THEN srt[(n + 1) \div 2]
      ELSE Mean(<<srt[n \div 2], srt[n \div 2 + 1]>>)

\* np.clip(c, -1, 1); NaN stays NaN
Clip(c) ==
  IF c.k = "nan" THEN c
  ELSE IF NGeq(c, One) THEN One
  ELSE IF NGeq(NNeg(One), c) THEN NNeg(One)
  ELSE c

\* np.corrcoef(x, y)[0, 1]: the covariances are the products of the
\* centred arrays times 1 / (n - 1); cov(x, y) is divided by sqrt(cov(x, x))
\* and then by sqrt(cov(y, y)), and the result is clipped to [-1, 1]
CorrCoef(xs, ys) ==
  LET n == Len(xs)
      x == Centered(xs)
      y == Centered(ys)
      fact == NDiv(One, IntNum(n - 1))
      cxy == NMul(Dot(x, y), fact)
      cxx == NMul(Dot(x, x), fact)
      cyy == NMul(Dot(y, y), fact)
  IN  Clip(NDiv(NDiv(cxy, NSqrt(cxx)), NSqrt(cyy)))

\* ------------------------------------------------- evaluate_predictions
\* fault variant: the boundaries are exclusive
_get_metric_score_strict(value, excellent, good, acceptable) ==
  IF NGeq(value, excellent) /\ value # excellent THEN 3
  ELSE IF NGeq(value, good) /\ value # good THEN 2
  ELSE IF NGeq(value, acceptable) /\ value # acceptable THEN 1
  ELSE 0

\* value >= excellent: 3, >= good: 2, >= acceptable: 1, else 0
_get_metric_score(value, excellent, good, acceptable) ==
  IF NGeq(value, excellent) THEN 3
  ELSE IF NGeq(value, good) THEN 2
  ELSE IF NGeq(value, acceptable) THEN 1
  ELSE 0

\* fault variant: the value and the thresholds are not complemented
ComplementScoreDirect(value, excellent, good, acceptable) ==
  _get_metric_score(value, excellent, good, acceptable)

\* the score of a metric that is better when lower: 1 - value against the
\* complements of the thresholds
ComplementScore(value, excellent, good, acceptable) ==
  _get_metric_score(OneMinus(value), OneMinus(excellent), OneMinus(good),
                    OneMinus(acceptable))

\* fault variant: the mean of the four scores, rounded down
OverallScoreMean(corr_score, r2_score, nrmse_score, mae_score) ==
  (corr_score + r2_score + nrmse_score + mae_score) \div 4

\* overall_score = min(...) of the four scores
OverallScore(corr_score, r2_score, nrmse_score, mae_score) ==
  Min2(Min2(corr_score, r2_score), Min2(nrmse_score, mae_score))

excellent_thresholds ==
  [correlation |-> Frac(95, 100), r_squared |-> Frac(90, 100),
   normalized_rmse |-> Frac(5, 100), mae_ratio |-> Frac(2, 100)]

good_thresholds ==
  [correlation |-> Frac(80, 100), r_squared |-> Frac(70, 100),
   normalized_rmse |-> Frac(10, 100), mae_ratio |-> Frac(5, 100)]

acceptable_thresholds ==
  [correlation |-> Frac(60, 100), r_squared |-> Frac(50, 100),
   normalized_rmse |-> Frac(20, 100), mae_ratio |-> Frac(10, 100)]

\* fault variant: a score of 1 is not acceptable
VerdictStrict(overall_score) ==
  IF overall_score >= 3
  THEN [level |-> "Excellent", acceptable |-> TRUE,
        recommendation |-> "excellent: ready for practical use"]
  ELSE IF overall_score >= 2
  THEN [level |-> "Good", acceptable |-> TRUE,
        recommendation |-> "good: usable, room for improvement"]
  ELSE IF overall_score >= 1
  THEN [level |-> "Acceptable", acceptable |-> FALSE,
        recommendation |-> "acceptable: use with care, improve"]
  ELSE [level |-> "Insufficient", acceptable |-> FALSE,
        recommendation |-> "insufficient: the model needs major improvement"]

\* level, acceptable and recommendation of an overall score; the levels are
\* the source's 優秀, 良好, 許容可能 and 不十分
Verdict(overall_score) ==
  IF overall_score >= 3
  THEN [level |-> "Excellent", acceptable |-> TRUE,
        recommendation |-> "excellent: ready for practical use"]
  ELSE IF overall_score >= 2
  THEN [level |-> "Good", acceptable |-> TRUE,
        recommendation |-> "good: usable, room for improvement"]
  ELSE IF overall_score >= 1
  THEN [level |-> "Acceptable", acceptable |-> TRUE,
        recommendation |-> "acceptable: use with care, improve"]
  ELSE [level |-> "Insufficient", acceptable |-> FALSE,
        recommendation |-> "insufficient: the model needs major improvement"]

_assess_accuracy(correlation, r_squared, normalized_rmse, mae, data_range) ==
  LET mae_ratio == IF ~IsZero(data_range) THEN NDiv(mae, data_range)
                   ELSE PosInf
      correlation_score ==
        _get_metric_score(NAbs(correlation),
                          excellent_thresholds.correlation,
                          good_thresholds.correlation,
                          acceptable_thresholds.correlation)
      r_squared_score ==
        _get_metric_score(r_squared,
                          excellent_thresholds.r_squared,
                          good_thresholds.r_squared,
                          acceptable_thresholds.r_squared)
      normalized_rmse_score ==
        ComplementScore(normalized_rmse,
                        excellent_thresholds.normalized_rmse,
                        good_thresholds.normalized_rmse,
                        acceptable_thresholds.normalized_rmse)
      mae_ratio_score ==
        ComplementScore(mae_ratio,
                        excellent_thresholds.mae_ratio,
                        good_thresholds.mae_ratio,
                        acceptable_thresholds.mae_ratio)
      overall_score ==
        OverallScore(correlation_score, r_squared_score,
                     normalized_rmse_score, mae_ratio_score)
      verdict == Verdict(overall_score)
  IN  [level |-> verdict.level,
       acceptable |-> verdict.acceptable,
       overall_score |-> overall_score,
       correlation_score |-> correlation_score,
       r_squared_score |-> r_squared_score,
       normalized_rmse_score |-> normalized_rmse_score,
       mae_ratio_score |-> mae_ratio_score,
       mae_ratio |-> mae_ratio,
       recommendation |-> verdict.recommendation]

\* min(len(predictions), len(actual_values))
MinLength(preds, actual_values) == Min2(Len(preds), Len(actual_values))

\* fault variant: the list is not cut
TruncateNot(list, min_length) == list

\* list[:min_length]
Truncate(list, min_length) == PySlice(list, 0, min_length)

\* fault variant: one sample is refused as well
ZeroSizeRaisesOne(min_length) == min_length <= 1

\* np.max raises on an array without elements
ZeroSizeRaises(min_length) == min_length = 0

\* fault variant: the guard is missing, and np.corrcoef of one sample is NaN
CorrelationUnguarded(pred, actual, min_length) ==
  IF min_length > 1 THEN CorrCoef(pred, actual) ELSE NaN

\* np.corrcoef(pred, actual)[0, 1] if min_length > 1 else 0
Correlation(pred, actual, min_length) ==
  IF min_length > 1 THEN CorrCoef(pred, actual) ELSE Zero

\* fault variant: the ratio is not taken from 1
RSquaredRatio(ss_res, ss_tot) ==
  IF ~IsZero(ss_tot) THEN NDiv(ss_res, ss_tot) ELSE Zero

\* 1 - (ss_res / ss_tot) if ss_tot != 0 else 0
RSquared(ss_res, ss_tot) ==
  IF ~IsZero(ss_tot) THEN OneMinus(NDiv(ss_res, ss_tot)) ELSE Zero

\* rmse / data_range if data_range != 0 else float('inf')
\* fault variant: without the guard, the division is left to the floats
NormalizedRmseUnguarded(rmse, data_range) == NDiv(rmse, data_range)

NormalizedRmse(rmse, data_range) ==
  IF ~IsZero(data_range) THEN NDiv(rmse, data_range) ELSE PosInf

\* what evaluate_predictions returns for its two lists, or the exception
\* numpy raises: np.max of an empty array is a ValueError
Evaluate(preds, actual_values) ==
  LET min_length == MinLength(preds, actual_values)
      pred == np_array(Truncate(preds, min_length))
      actual == np_array(Truncate(actual_values, min_length))
      errors == Array([i \in 1..min_length |-> NSub(pred[i], actual[i])])
      abs_errors == Array([i \in 1..min_length |-> NAbs(errors[i])])
      mse == Mean(Array([i \in 1..min_length |-> NMul(errors[i], errors[i])]))
      mae == Mean(abs_errors)
      rmse == NSqrt(mse)
      error_var == Var(errors)
      error_std == NSqrt(error_var)
      correlation == Correlation(pred, actual, min_length)
      residuals ==
        Array([i \in 1..min_length |-> NSub(actual[i], pred[i])])
      ss_res == Dot(residuals, residuals)
      deviations == Centered(actual)
      ss_tot == Dot(deviations, deviations)
      r_squared == RSquared(ss_res, ss_tot)
      data_range == NSub(MaxSeq(actual), MinSeq(actual))
      normalized_rmse == NormalizedRmse(rmse, data_range)
  IN  IF ZeroSizeRaises(min_length)
      THEN [kind |-> "raised",
            error |-> "ValueError: zero-size array to reduction operation"]
      ELSE [kind |-> "metrics",
            mse |-> mse,
            mae |-> mae,
            rmse |-> rmse,
            correlation |-> correlation,
            r_squared |-> r_squared,
            error_std |-> error_std,
            error_var |-> error_var,
            max_error |-> MaxSeq(abs_errors),
            min_error |-> MinSeq(abs_errors),
            error_95th_percentile |-> Percentile(abs_errors, 95),
            error_75th_percentile |-> Percentile(abs_errors, 75),
            error_median |-> Median(abs_errors),
            normalized_rmse |-> normalized_rmse,
            data_range |-> data_range,
            samples |-> min_length,
            accuracy_assessment |->
              _assess_accuracy(correlation, r_squared, normalized_rmse,
                               mae, data_range)]

\* evaluate_predictions(predictions, actual_values)
evaluate_predictions(preds, actual_values) ==
  /\ pc # "loop"
  /\ evaluated' = <<preds, actual_values>>
  /\ metrics' = Evaluate(preds, actual_values)
  /\ UNCHANGED <<data, input_size, model, pc, op, start_index,
                 prediction_steps, initial_sequence, current_sequence,
                 predictions, windows, error, result, reused>>
  /\ UNCHANGED assessVars
  /\ UNCHANGED <<training, cli>>

\* the lists a caller hands to predict_sequence: stretches of the series,
\* of the right length or not
CallerLists ==
  {PySlice(data, i, i + n) : i \in 0..MaxLen, n \in 0..(MaxInput + 1)}

Init ==
  /\ data \in SeqsOf(Vals, 0, MaxLen)
  /\ input_size \in 1..MaxInput
  /\ model \in Models
  /\ pc = "idle"
  /\ op = "none"
  /\ start_index = 0
  /\ prediction_steps = 0
  /\ initial_sequence = <<>>
  /\ current_sequence = <<>>
  /\ predictions = <<>>
  /\ windows = <<>>
  /\ error = "none"
  /\ result = NoResult
  /\ evaluated = NoLists
  /\ metrics = NoMetrics
  /\ reused = FALSE
  /\ assess_input = NoInput
  /\ assessment = NoAssessment
  /\ training = NoTraining
  /\ cli = NoCli

Next ==
  \/ \E start \in -MaxLen..MaxLen, steps \in 0..MaxSteps :
       predict_from_csv(start, steps)
  \/ \E initial \in CallerLists, steps \in 0..MaxSteps :
       predict_sequence(initial, steps)
  \/ loop_iteration
  \/ forecast_return
  \/ /\ pc = "returned"
     /\ op = "predict_from_csv"
     /\ evaluate_predictions(result.predictions, result.actual_values)

Spec == Init /\ [][Next]_vars

\* A call is synchronous: once predict_sequence has entered its loop, the
\* thread goes on to the next iteration and to the return.
SpecLive ==
  /\ Init
  /\ [][Next]_vars
  /\ WF_vars(loop_iteration)
  /\ WF_vars(forecast_return)

\* evaluate_predictions on its own: the caller holds any two lists and
\* evaluates them
\* its samples are 0.0 and 0.1
Samples == {0, 1}
EvalLists == SeqsOf(Samples, 0, MaxEval)

InitEval ==
  /\ data = <<>>
  /\ input_size = 1
  /\ model = [bias |-> 1, raises |-> FALSE, bad |-> 1, oracle |-> FALSE]
  /\ pc = "idle"
  /\ op = "none"
  /\ start_index = 0
  /\ prediction_steps = 0
  /\ initial_sequence = <<>>
  /\ current_sequence = <<>>
  /\ predictions = <<>>
  /\ windows = <<>>
  /\ error = "none"
  /\ result = NoResult
  /\ evaluated \in EvalLists \X EvalLists
  /\ metrics = NoMetrics
  /\ reused = FALSE
  /\ assess_input = NoInput
  /\ assessment = NoAssessment
  /\ training = NoTraining
  /\ cli = NoCli

NextEval ==
  /\ metrics = NoMetrics
  /\ evaluate_predictions(evaluated[1], evaluated[2])

SpecEval == InitEval /\ [][NextEval]_vars

\* _assess_accuracy on its own: evaluate_predictions hands it any five
\* floats.  The inputs are the floats at the thresholds, their neighbours
\* on both sides, and values far from them, NaN and the infinities.
NextUp(x) == Carry(1, x.m + 1, x.e)
NextDown(x) ==
  IF x.m = MantissaLow THEN Finite(MantissaLimit - 1, x.e - 1)
  ELSE Finite(x.m - 1, x.e)
Around(t) == {NextDown(t), t, NextUp(t)}

Tiers(metric) ==
  {excellent_thresholds[metric], good_thresholds[metric],
   acceptable_thresholds[metric]}

AroundTiers(metric) == UNION {Around(t) : t \in Tiers(metric)}

CorrelationInputs ==
  AroundTiers("correlation") \cup {NNeg(x) : x \in AroundTiers("correlation")}
    \cup {Zero, One, NNeg(One), NaN}

RSquaredInputs ==
  AroundTiers("r_squared") \cup {Zero, One, IntNum(-3), NegInf, NaN}

NrmseInputs ==
  AroundTiers("normalized_rmse") \cup {Zero, One, IntNum(2), PosInf, NaN}

MaeInputs == AroundTiers("mae_ratio") \cup {Zero, One, NaN}

AssessInput(correlation, r_squared, normalized_rmse, mae, data_range) ==
  [kind |-> "input", correlation |-> correlation, r_squared |-> r_squared,
   normalized_rmse |-> normalized_rmse, mae |-> mae,
   data_range |-> data_range]

\* every combination of a few values of each argument
CoarseInputs ==
  {AssessInput(c, r, n, m, d) :
     c \in {NNeg(One), NNeg(good_thresholds.correlation), Zero,
            acceptable_thresholds.correlation, good_thresholds.correlation,
            One},
     r \in {IntNum(-3), Zero, acceptable_thresholds.r_squared,
            good_thresholds.r_squared, One},
     n \in {Zero, good_thresholds.normalized_rmse,
            acceptable_thresholds.normalized_rmse, One, PosInf},
     m \in {Zero, good_thresholds.mae_ratio, One},
     d \in {Zero, One}}

\* one argument takes each of its values, the others are those of a
\* forecast without error
FineInputs ==
  {AssessInput(c, One, Zero, Zero, One) : c \in CorrelationInputs}
    \cup {AssessInput(One, r, Zero, Zero, One) : r \in RSquaredInputs}
    \cup {AssessInput(One, One, n, Zero, One) : n \in NrmseInputs}
    \cup {AssessInput(One, One, Zero, m, d) :
            m \in MaeInputs, d \in {Zero, One, IntNum(2)}}

AssessInputs == CoarseInputs \cup FineInputs

Assess(input) ==
  _assess_accuracy(input.correlation, input.r_squared,
                   input.normalized_rmse, input.mae, input.data_range)

\* self._assess_accuracy(correlation, r_squared, normalized_rmse, mae,
\* data_range)
assess ==
  /\ assess_input # NoInput
  /\ assessment = NoAssessment
  /\ assessment' = Assess(assess_input)
  /\ UNCHANGED <<data, input_size, model, pc, op, start_index,
                 prediction_steps, initial_sequence, current_sequence,
                 predictions, windows, error, result, evaluated, metrics,
                 reused, assess_input, training, cli>>

InitAssess ==
  /\ data = <<>>
  /\ input_size = 1
  /\ model = [bias |-> 1, raises |-> FALSE, bad |-> 1, oracle |-> FALSE]
  /\ pc = "idle"
  /\ op = "none"
  /\ start_index = 0
  /\ prediction_steps = 0
  /\ initial_sequence = <<>>
  /\ current_sequence = <<>>
  /\ predictions = <<>>
  /\ windows = <<>>
  /\ error = "none"
  /\ result = NoResult
  /\ evaluated = NoLists
  /\ metrics = NoMetrics
  /\ reused = FALSE
  /\ assess_input \in AssessInputs
  /\ assessment = NoAssessment
  /\ training = NoTraining
  /\ cli = NoCli

NextAssess == assess

SpecAssess == InitAssess /\ [][NextAssess]_vars

\* The forecast of the generated series: 1000 samples of a sine of
\* amplitude 1 over two periods plus noise, counted in tenths (the sine by
\* Bhaskara's rational approximation), windows of 20 samples, and the
\* perfectly trained model.  The caller forecasts 50 steps from index 100
\* and evaluates the result.
SineTenths(i) ==
  LET t == i % 250
      h == t * (250 - t)
      s == (160 * h) \div (312500 - 4 * h)
  IN  IF i % 500 < 250 THEN s ELSE -s

Noise(i) == ((7 * i) % 3) - 1

ScenarioSeries == [i \in 1..1000 |-> SineTenths(i - 1) + Noise(i)]

InitScenario ==
  /\ data = ScenarioSeries
  /\ input_size = 20
  /\ model = [bias |-> 1, raises |-> FALSE, bad |-> 1, oracle |-> TRUE]
  /\ pc = "idle"
  /\ op = "none"
  /\ start_index = 0
  /\ prediction_steps = 0
  /\ initial_sequence = <<>>
  /\ current_sequence = <<>>
  /\ predictions = <<>>
  /\ windows = <<>>
  /\ error = "none"
  /\ result = NoResult
  /\ evaluated = NoLists
  /\ metrics = NoMetrics
  /\ reused = FALSE
  /\ assess_input = NoInput
  /\ assessment = NoAssessment
  /\ training = NoTraining
  /\ cli = NoCli

NextScenario ==
  \/ predict_from_csv(100, 50)
  \/ loop_iteration
  \/ forecast_return
  \/ /\ pc = "returned"
     /\ evaluate_predictions(result.predictions, result.actual_values)

SpecScenario == InitScenario /\ [][NextScenario]_vars

\* ------------------------------------------------------------- training
\* TrainModelUseCase.train.  The weights of the network are one number;
\* the tensors that hold weights are cells of training.heap, and a
\* reference to a tensor is the index of its cell.  The validation loss is
\* a function of the weights.
Weights == 0..MaxWeight

\* criterion(model(X), y) over the validation set
ValLoss(w) == IF w >= 1 THEN w - 1 ELSE 1 - w

\* float('inf'): above every loss
InfLoss == MaxWeight + 1

\* the variables of forecasting, of evaluation and of the command line,
\* which training leaves alone
forecastVars ==
  <<data, input_size, model, pc, op, start_index, prediction_steps,
    initial_sequence, current_sequence, predictions, windows, error,
    result, evaluated, metrics, reused, assess_input, assessment, cli>>

\* the reference held by best_model_state before its first assignment
Unbound == 0

\* model.state_dict().copy(): a new dictionary holding the same tensors as
\* the parameters of the model, so the reference of the model's own cell
StateDictCopy(t) == t.model_ref

\* fault variant: an epoch that equals the best loss counts as improvement
ImprovedOrEqual(val_loss, best_val_loss) == val_loss <= best_val_loss

\* val_loss < best_val_loss
Improved(val_loss, best_val_loss) == val_loss < best_val_loss

\* lines 29-89: the model is built with initial weights, the locals are set
train(w) ==
  /\ training.pc = "idle"
  /\ training' =
       [training EXCEPT !.pc = "epoch",
                        !.heap = <<w>>,
                        !.model_ref = 1,
                        !.best_val_loss = InfLoss,
                        !.patience_counter = 0]
  /\ UNCHANGED forecastVars

\* one iteration of the loop over range(max_epochs), lines 91-124:
\* _train_epoch leaves the weights w in the tensors of the model (the
\* optimizer updates them in place), _validate_epoch measures them
train_epoch(w) ==
  /\ training.pc = "epoch"
  /\ training.epoch < training.max_epochs
  /\ ~training.stopped
  /\ LET heap == [training.heap EXCEPT ![training.model_ref] = w]
         val_loss == ValLoss(heap[training.model_ref])
         improved == Improved(val_loss, training.best_val_loss)
         patience_counter ==
           IF improved THEN 0 ELSE training.patience_counter + 1
     IN  training' =
           [training EXCEPT
              !.heap = heap,
              !.epoch = @ + 1,
              !.val_loss = Append(@, val_loss),
              !.epoch_weights = Append(@, w),
              !.best_val_loss = IF improved THEN val_loss ELSE @,
              !.best_model_state =
                 IF improved THEN StateDictCopy(training) ELSE @,
              !.patience_counter = patience_counter,
              !.stopped =
                 patience_counter >= training.early_stopping_patience]
  /\ UNCHANGED forecastVars

\* lines 126-146, after the loop: model.load_state_dict(best_model_state)
\* copies the values of the saved tensors into the tensors of the model;
\* a name never assigned is an UnboundLocalError
train_return ==
  /\ training.pc = "epoch"
  /\ training.epoch >= training.max_epochs \/ training.stopped
  /\ training' =
       IF training.best_model_state = Unbound
       THEN [training EXCEPT !.pc = "raised",
                             !.error = "UnboundLocalError"]
       ELSE [training EXCEPT
               !.pc = "returned",
               !.heap = [training.heap EXCEPT ![training.model_ref] =
                          training.heap[training.best_model_state]]]
  /\ UNCHANGED forecastVars

InitTrain ==
  /\ data = <<>>
  /\ input_size = 1
  /\ model = [bias |-> 1, raises |-> FALSE, bad |-> 1, oracle |-> FALSE]
  /\ pc = "idle"
  /\ op = "none"
  /\ start_index = 0
  /\ prediction_steps = 0
  /\ initial_sequence = <<>>
  /\ current_sequence = <<>>
  /\ predictions = <<>>
  /\ windows = <<>>
  /\ error = "none"
  /\ result = NoResult
  /\ evaluated = NoLists
  /\ metrics = NoMetrics
  /\ reused = FALSE
  /\ assess_input = NoInput
  /\ assessment = NoAssessment
  /\ cli = NoCli
  /\ \E max_epochs \in 0..MaxEpochs, patience \in 0..MaxPatience :
       training = [pc |-> "idle",
                   max_epochs |-> max_epochs,
                   early_stopping_patience |-> patience,
                   heap |-> <<>>,
                   model_ref |-> 0,
                   epoch |-> 0,
                   val_loss |-> <<>>,
                   epoch_weights |-> <<>>,
                   best_val_loss |-> InfLoss,
                   best_model_state |-> Unbound,
                   patience_counter |-> 0,
                   stopped |-> FALSE,
                   error |-> "none"]

NextTrain ==
  \/ \E w \in Weights : train(w)
  \/ \E w \in Weights : train_epoch(w)
  \/ train_return

SpecTrain == InitTrain /\ [][NextTrain]_vars

\* ------------------------------------------------------- command line
\* main.py --mode predict: predict_mode, and the exit code main derives
\* from its result.  cli.model_exists is os.path.exists(model_path);
\* cli.start_index and cli.steps are args.start_index and args.steps.
useCaseVars ==
  <<data, input_size, model, pc, op, start_index, prediction_steps,
    initial_sequence, current_sequence, predictions, windows, error,
    result, evaluated, metrics, reused, assess_input, assessment, training>>

\* the display loop: for i in range(min(10, len(result['predictions'])))
SampleRows(preds) == 0..(Min2(SampleCount, Len(preds)) - 1)

\* the row of index i: where the actual values have run out, actual is the
\* string "N/A", and the format {actual:7.4f} of a string is a ValueError
RowRaises(i, actual_values) == i >= Len(actual_values)

DisplayRaises(preds, actual_values) ==
  \E i \in SampleRows(preds) : RowRaises(i, actual_values)

\* predict_mode returns {'success': ...}; main exits with 0 or 1
Return(success, caught) ==
  cli' = [cli EXCEPT !.pc = "done",
                     !.success = success,
                     !.caught = caught,
                     !.exit_code = IF success THEN 0 ELSE 1]

\* lines 66-76: without the model file nothing is run; with it, the model
\* is loaded and the use case object is built
predict_mode ==
  /\ cli.pc = "start"
  /\ IF cli.model_exists
     THEN cli' = [cli EXCEPT !.pc = "running"]
     ELSE Return(FALSE, "none")
  /\ UNCHANGED useCaseVars

\* lines 91-142: the results are printed and success is returned; an
\* exception of the forecast, of the evaluation or of the printing is
\* caught at line 140
predict_mode_report ==
  /\ cli.pc = "running"
  /\ \/ /\ pc = "raised"
        /\ Return(FALSE, error)
     \/ /\ pc = "returned"
        /\ metrics.kind = "raised"
        /\ Return(FALSE, metrics.error)
     \/ /\ pc = "returned"
        /\ metrics.kind = "metrics"
        /\ IF DisplayRaises(result.predictions, result.actual_values)
           THEN Return(FALSE, "ValueError: Unknown format code 'f'")
           ELSE Return(TRUE, "none")
  /\ UNCHANGED useCaseVars

InitCli ==
  /\ data \in SeqsOf(Vals, 0, MaxLen)
  /\ input_size \in 1..MaxInput
  /\ model \in Models
  /\ pc = "idle"
  /\ op = "none"
  /\ start_index = 0
  /\ prediction_steps = 0
  /\ initial_sequence = <<>>
  /\ current_sequence = <<>>
  /\ predictions = <<>>
  /\ windows = <<>>
  /\ error = "none"
  /\ result = NoResult
  /\ evaluated = NoLists
  /\ metrics = NoMetrics
  /\ reused = FALSE
  /\ assess_input = NoInput
  /\ assessment = NoAssessment
  /\ training = NoTraining
  /\ \E exists \in BOOLEAN, start \in -MaxLen..MaxLen, steps \in 0..MaxSteps :
       cli = [pc |-> "start", model_exists |-> exists,
              start_index |-> start, steps |-> steps,
              success |-> FALSE, caught |-> "none", exit_code |-> 0]

NextCli ==
  \/ predict_mode
  \/ /\ cli.pc = "running"
     /\ pc = "idle"
     /\ predict_from_csv(cli.start_index, cli.steps)
  \/ /\ cli.pc = "running"
     /\ loop_iteration
  \/ /\ cli.pc = "running"
     /\ forecast_return
  \/ /\ cli.pc = "running"
     /\ pc = "returned"
     /\ metrics = NoMetrics
     /\ evaluate_predictions(result.predictions, result.actual_values)
  \/ predict_mode_report

SpecCli == InitCli /\ [][NextCli]_vars

\* ------------------------------------------------------------- claims
IsValueError(e) ==
  e \in {"ValueError: start index too large", "ValueError: initial length",
         "ValueError: input length"}

FromCsv == op = "predict_from_csv"

\* C1: every forecast that returns, predict_from_csv or predict_sequence,
\* returns exactly prediction_steps predictions, however few actual values
\* the series has left.
C1_PredictionsLength ==
  pc = "returned" =>
    /\ Len(result.predictions) = prediction_steps
    /\ FromCsv => result.prediction_steps = prediction_steps

\* a forecast over the end of the series: more predictions than actual values
C1_Witness ==
  /\ pc = "returned"
  /\ FromCsv
  /\ start_index >= 0
  /\ prediction_steps = MaxSteps
  /\ Len(result.actual_values) < prediction_steps

\* C2: the first window handed to the model is
\* data[start_index : start_index + input_size], and every later window is
\* the one before it without its first element and with the prediction made
\* from it appended.
C2_Windowing ==
  /\ (FromCsv /\ Len(windows) >= 1) =>
       /\ windows[1] = PySlice(data, start_index, start_index + input_size)
       /\ start_index >= 0 =>
            windows[1] = [i \in 1..input_size |-> data[start_index + i]]
  /\ (op = "predict_sequence" /\ Len(windows) >= 1) =>
       windows[1] = initial_sequence
  /\ \A k \in 2..Len(windows) :
       /\ Len(windows[k]) = Len(windows[k - 1])
       /\ \A i \in 1..(Len(windows[k]) - 1) :
            windows[k][i] = windows[k - 1][i + 1]
       /\ windows[k][Len(windows[k])] = predictions[k - 1]

\* the second window of a forecast whose first prediction is not the actual
\* value at that place
C2_Witness ==
  /\ pc = "returned"
  /\ FromCsv
  /\ start_index >= 0
  /\ input_size >= 2
  /\ Len(windows) >= 2
  /\ Len(result.actual_values) >= 1
  /\ result.predictions[1] # result.actual_values[1]

\* C3: predict_from_csv with start_index + input_size >= len(data) raises
\* the start-index-too-large ValueError, returns nothing and has not called
\* the model.
C3_RangeError ==
  (FromCsv /\ start_index + input_size >= Len(data)) =>
    /\ pc = "raised"
    /\ error = "ValueError: start index too large"
    /\ result = NoResult
    /\ windows = <<>>

\* such a call, asked for at least one step, on the very boundary
C3_Witness ==
  /\ FromCsv
  /\ start_index >= 0
  /\ start_index + input_size = Len(data)
  /\ prediction_steps >= 1
  /\ pc = "raised"

\* C4: every predict_from_csv call with start_index < 0 fails with a
\* ValueError, returns nothing, and builds no window.
C4_NegativeStartRejected ==
  (FromCsv /\ start_index < 0) =>
    /\ pc = "raised"
    /\ IsValueError(error)
    /\ result = NoResult
    /\ windows = <<>>

\* C5: the actual_values of every returned predict_from_csv are
\* data[start_index + input_size : min(start_index + input_size + steps,
\* len(data))]: min(steps, len(data) - start_index - input_size) values, never
\* more than there are predictions.
C5_ActualValuesAligned ==
  (pc = "returned" /\ FromCsv) =>
    /\ Len(result.actual_values) =
         Min2(prediction_steps, Len(data) - start_index - input_size)
    /\ Len(result.actual_values) <= Len(result.predictions)
    /\ \A i \in 1..Len(result.actual_values) :
         /\ start_index + input_size + i \in DOMAIN data
         /\ result.actual_values[i] = data[start_index + input_size + i]

\* C6: with start_index >= 0, start_index + input_size = len(data) - 1 and
\* steps >= 1 the call passes both length checks, so that only the model can
\* fail it; it returns exactly one actual value, and evaluating the result
\* uses one sample.
C6_Boundary ==
  (/\ FromCsv
   /\ start_index >= 0
   /\ start_index + input_size = Len(data) - 1
   /\ prediction_steps >= 1) =>
    /\ ~IsValueError(error)
    /\ pc = "raised" => error = "ModelError"
    /\ pc = "returned" =>
         /\ Len(result.actual_values) = 1
         /\ Len(result.predictions) = prediction_steps
    /\ metrics # NoMetrics =>
         /\ metrics.kind = "metrics"
         /\ metrics.samples = 1

\* the boundary forecast of several steps, returned and evaluated
C6_Witness ==
  /\ FromCsv
  /\ start_index >= 0
  /\ start_index + input_size = Len(data) - 1
  /\ prediction_steps >= 2
  /\ pc = "returned"
  /\ metrics # NoMetrics

\* C7: when the model raises on a window, the forecast ends there with the
\* model's error and without a result: that window is the last one handed to
\* the model, and no forecast goes on or returns after a window the model
\* raised on.
C7_PredictorFailure ==
  /\ pc = "raised" => result = NoResult
  /\ (pc = "raised" /\ error = "ModelError") =>
       /\ Len(windows) = Len(predictions) + 1
       /\ ModelRaises(windows[Len(windows)])
  /\ \A k \in 1..Len(windows) :
       ModelRaises(windows[k]) =>
         /\ k = Len(windows)
         /\ pc = "raised"
         /\ error = "ModelError"

\* the model raised after at least one step had succeeded
C7_Witness ==
  /\ pc = "raised"
  /\ error = "ModelError"
  /\ Len(predictions) >= 1

\* the predictions of the model fed back steps times from a first window: a
\* function of the window, the steps and the model's weights, nothing else
RECURSIVE Rollout(_, _)
Rollout(window, steps) ==
  IF steps = 0 THEN <<>>
  ELSE LET next_pred == ModelOutput(window)
       IN  <<next_pred>> \o
             Rollout(SubSeq(window, 2, Len(window)) \o <<next_pred>>,
                     steps - 1)

\* C8: the predictions a forecast returns are a function of its arguments
\* (the series, start_index, input_size, steps; or the initial sequence and
\* steps) and the model alone, whatever calls the object served before: two
\* calls with the same arguments return the same predictions.
C8_Deterministic ==
  pc = "returned" =>
    result.predictions =
      Rollout(IF FromCsv
              THEN PySlice(data, start_index, start_index + input_size)
              ELSE initial_sequence,
              prediction_steps)

\* a forecast returned by an object that had served another call before
C8_Witness ==
  /\ pc = "returned"
  /\ reused
  /\ prediction_steps >= 2

\* C9: no step of a forecast changes the series, the configuration, the model
\* or the initial sequence it was handed, and the initial_sequence of the
\* returned dictionary is that initial window, not the shifted one.
C9_InputsUnchanged ==
  [][/\ data' = data
     /\ input_size' = input_size
     /\ model' = model
     /\ pc = "loop" => initial_sequence' = initial_sequence
     /\ (pc = "loop" /\ pc' = "returned" /\ FromCsv) =>
          /\ result'.initial_sequence = initial_sequence
          /\ result'.initial_sequence =
               PySlice(data, start_index, start_index + input_size)
    ]_vars

\* a returned forecast whose window has moved away from the initial one
C9_Witness ==
  /\ pc = "returned"
  /\ FromCsv
  /\ prediction_steps >= 1
  /\ current_sequence # initial_sequence
  /\ result.initial_sequence = initial_sequence

\* C10: evaluate_predictions reports samples = n = min(len(predictions),
\* len(actual_values)), and its whole result is that of the two lists cut to
\* n: whatever the longer list holds from index n on changes nothing.
C10_Truncation ==
  metrics.kind = "metrics" =>
    LET preds == evaluated[1]
        actual_values == evaluated[2]
        n == Min2(Len(preds), Len(actual_values))
        pred == SubSeq(preds, 1, n)
        actual == SubSeq(actual_values, 1, n)
    IN  /\ metrics.samples = n
        /\ metrics = Evaluate(pred, actual)
        /\ \A rest \in SeqsOf(Samples, 0, MaxEval - n) :
             /\ metrics = Evaluate(pred \o rest, actual)
             /\ metrics = Evaluate(pred, actual \o rest)

\* an evaluation whose actual values go on, with a new maximum, after the
\* predictions have ended
C10_Witness ==
  /\ metrics.kind = "metrics"
  /\ \E i \in (Len(evaluated[1]) + 1)..Len(evaluated[2]) :
       \A j \in 1..Len(evaluated[1]) : evaluated[2][i] > evaluated[2][j]

\* the overlap of the two evaluated lists
Overlap == Min2(Len(evaluated[1]), Len(evaluated[2]))

\* the actual values of the overlap are all the same
ConstantActual ==
  \A i, j \in 1..Overlap : evaluated[2][i] = evaluated[2][j]

\* C11: evaluate_predictions fails exactly when the overlap n of its two
\* lists is 0, with the error numpy raises on an empty array; for every
\* n >= 1 it returns its metrics.
C11_FailsOnlyEmpty ==
  metrics # NoMetrics =>
    /\ Overlap = 0 =>
         /\ metrics.kind = "raised"
         /\ metrics.error = "ValueError: zero-size array to reduction operation"
    /\ Overlap >= 1 => metrics.kind = "metrics"

\* an evaluation of an empty list against a list with samples has failed
C11_Witness ==
  /\ metrics.kind = "raised"
  /\ Overlap = 0
  /\ Len(evaluated[1]) + Len(evaluated[2]) > 0

\* at most 2^(3 - MantissaBits) below 1, and not above 1
Tolerance == NDiv(IntNum(8), IntNum(MantissaLimit))
CloseToOne(x) == NGeq(One, x) /\ NGeq(x, OneMinus(Tolerance))

C13_Degenerate ==
  (metrics # NoMetrics /\ Overlap >= 1 /\ ConstantActual) =>
    /\ metrics.kind = "metrics"
    /\ metrics.normalized_rmse = PosInf
    /\ metrics.r_squared = Zero

\* C14: with an overlap of one sample evaluate_predictions returns, and the
\* correlation it reports is the number 0, not NaN; no result with an
\* overlap n <= 1 has another correlation.
C14_CorrelationSentinel ==
  /\ (metrics # NoMetrics /\ Overlap = 1) => metrics.kind = "metrics"
  /\ (metrics.kind = "metrics" /\ Overlap <= 1) => metrics.correlation = Zero

\* one prediction evaluated against one actual value that differs from it
C14_Witness ==
  /\ metrics.kind = "metrics"
  /\ Overlap = 1
  /\ evaluated[1][1] # evaluated[2][1]

\* the four per-metric scores of the assessment
Scores ==
  <<assessment.correlation_score, assessment.r_squared_score,
    assessment.normalized_rmse_score, assessment.mae_ratio_score>>

\* C15: the four per-metric scores are integers 0..3 and overall_score is
\* their minimum, so one score of 0 makes the overall score 0 whatever the
\* other three are.
C15_OverallIsMin ==
  assessment # NoAssessment =>
    /\ \A i \in 1..4 : Scores[i] \in 0..3
    /\ \A i \in 1..4 : assessment.overall_score <= Scores[i]
    /\ \E i \in 1..4 : assessment.overall_score = Scores[i]
    /\ (\E i \in 1..4 : Scores[i] = 0) => assessment.overall_score = 0

\* three metrics at the top tier and the correlation at the bottom
C15_Witness ==
  /\ assessment # NoAssessment
  /\ Scores = <<0, 3, 3, 3>>
  /\ assessment.overall_score = 0

\* C16: level, acceptable and recommendation are determined by
\* overall_score alone: 3 Excellent, 2 Good, 1 Acceptable, 0 Insufficient,
\* acceptable exactly for overall_score >= 1, and the recommendation is the
\* one of the level.
C16_VerdictOfScore ==
  assessment # NoAssessment =>
    /\ assessment.level =
         CASE assessment.overall_score = 3 -> "Excellent"
           [] assessment.overall_score = 2 -> "Good"
           [] assessment.overall_score = 1 -> "Acceptable"
           [] assessment.overall_score = 0 -> "Insufficient"
    /\ assessment.acceptable = (assessment.overall_score >= 1)
    /\ assessment.recommendation =
         CASE assessment.level = "Excellent" ->
                "excellent: ready for practical use"
           [] assessment.level = "Good" ->
                "good: usable, room for improvement"
           [] assessment.level = "Acceptable" ->
                "acceptable: use with care, improve"
           [] assessment.level = "Insufficient" ->
                "insufficient: the model needs major improvement"

\* the lowest verdict that is still acceptable
C16_Witness ==
  /\ assessment # NoAssessment
  /\ assessment.overall_score = 1
  /\ assessment.level = "Acceptable"
  /\ assessment.acceptable

\* the second input has the mae and data_range of the first, an r_squared
\* not below and a normalized_rmse not above
SameErrorNotWorse(first, second) ==
  /\ second.mae = first.mae
  /\ second.data_range = first.data_range
  /\ NGeq(second.r_squared, first.r_squared)
  /\ NGeq(first.normalized_rmse, second.normalized_rmse)

\* C17 as stated: with the same mae and data_range, a correlation and an
\* r_squared not below and a normalized_rmse not above those of the first
\* input give an overall_score not below, negative correlations included.
C17_Monotone ==
  assessment # NoAssessment =>
    \A second \in AssessInputs :
      (/\ SameErrorNotWorse(assess_input, second)
       /\ NGeq(second.correlation, assess_input.correlation)) =>
        Assess(second).overall_score >= assessment.overall_score

\* C17, amended: with the same mae and data_range, an abs(correlation) and
\* an r_squared not below and a normalized_rmse not above those of the
\* first input give an overall_score not below.
C17_MonotoneAbs ==
  assessment # NoAssessment =>
    \A second \in AssessInputs :
      (/\ SameErrorNotWorse(assess_input, second)
       /\ NGeq(NAbs(second.correlation), NAbs(assess_input.correlation))) =>
        Assess(second).overall_score >= assessment.overall_score

\* an input of negative correlation that another one, of a correlation
\* further from 0, a higher r_squared and a lower normalized_rmse, outscores
C17_Witness ==
  /\ assessment # NoAssessment
  /\ SignOf(assess_input.correlation) < 0
  /\ \E second \in AssessInputs :
       /\ SameErrorNotWorse(assess_input, second)
       /\ NGeq(NAbs(second.correlation), NAbs(assess_input.correlation))
       /\ second.correlation # assess_input.correlation
       /\ second.r_squared # assess_input.r_squared
       /\ second.normalized_rmse # assess_input.normalized_rmse
       /\ Assess(second).overall_score > assessment.overall_score

\* the calls of _get_metric_score: the value, the three thresholds and the
\* score returned
ScoreCalls ==
  {<<NAbs(assess_input.correlation),
     excellent_thresholds.correlation, good_thresholds.correlation,
     acceptable_thresholds.correlation, assessment.correlation_score>>,
   <<assess_input.r_squared,
     excellent_thresholds.r_squared, good_thresholds.r_squared,
     acceptable_thresholds.r_squared, assessment.r_squared_score>>,
   <<OneMinus(assess_input.normalized_rmse),
     OneMinus(excellent_thresholds.normalized_rmse),
     OneMinus(good_thresholds.normalized_rmse),
     OneMinus(acceptable_thresholds.normalized_rmse),
     assessment.normalized_rmse_score>>,
   <<OneMinus(assessment.mae_ratio),
     OneMinus(excellent_thresholds.mae_ratio),
     OneMinus(good_thresholds.mae_ratio),
     OneMinus(acceptable_thresholds.mae_ratio),
     assessment.mae_ratio_score>>}

\* C18: _get_metric_score returns 3 exactly when value >= excellent, 2
\* exactly when value >= good but not >= excellent, 1 exactly when value >=
\* acceptable but not >= good, and 0 otherwise; a value equal to a
\* threshold gets the tier of that threshold.
C18_InclusiveTiers ==
  assessment # NoAssessment =>
    \A call \in ScoreCalls :
      LET value == call[1]
          score == call[5]
      IN  /\ score = 3 <=> NGeq(value, call[2])
          /\ score = 2 <=> (~NGeq(value, call[2]) /\ NGeq(value, call[3]))
          /\ score = 1 <=> (~NGeq(value, call[3]) /\ NGeq(value, call[4]))
          /\ score = 0 <=> ~NGeq(value, call[4])
          /\ value = call[2] => score = 3
          /\ value = call[3] => score = 2
          /\ value = call[4] => score = 1

\* an r_squared that is exactly the threshold of the middle tier
C18_Witness ==
  /\ assessment # NoAssessment
  /\ assess_input.r_squared = good_thresholds.r_squared
  /\ assessment.r_squared_score = 2

\* the tier of a value by the table, for a metric that is better when higher
HigherTier(value, metric) ==
  IF NGeq(value, excellent_thresholds[metric]) THEN 3
  ELSE IF NGeq(value, good_thresholds[metric]) THEN 2
  ELSE IF NGeq(value, acceptable_thresholds[metric]) THEN 1
  ELSE 0

\* the tier of a value by the table, for a metric that is better when lower
LowerTier(value, metric) ==
  IF NGeq(excellent_thresholds[metric], value) THEN 3
  ELSE IF NGeq(good_thresholds[metric], value) THEN 2
  ELSE IF NGeq(acceptable_thresholds[metric], value) THEN 1
  ELSE 0

\* C19 as stated: every per-metric score is the tier the threshold table
\* gives directly: abs(correlation) and r_squared by >=, c and -c alike,
\* normalized_rmse and mae_ratio by <=; the complement form scores every
\* value as the direct comparison does.
C19_DirectTable ==
  assessment # NoAssessment =>
    /\ assessment.correlation_score =
         HigherTier(NAbs(assess_input.correlation), "correlation")
    /\ assessment.correlation_score =
         Assess([assess_input EXCEPT !.correlation = NNeg(@)]).correlation_score
    /\ assessment.r_squared_score =
         HigherTier(assess_input.r_squared, "r_squared")
    /\ assessment.normalized_rmse_score =
         LowerTier(assess_input.normalized_rmse, "normalized_rmse")
    /\ assessment.mae_ratio_score =
         LowerTier(assessment.mae_ratio, "mae_ratio")

\* C20: on the series of 1000 samples with input_size = 20, the forecast of
\* 50 steps from start_index = 100 returns exactly 50 predictions and 50
\* actual values, and with a model that returns the true next value at
\* every step the assessment of the result is Excellent, overall_score 3.
C20_Scenario ==
  (/\ Len(data) = 1000
   /\ input_size = 20
   /\ FromCsv
   /\ start_index = 100
   /\ prediction_steps = 50
   /\ pc = "returned") =>
    /\ Len(result.predictions) = 50
    /\ Len(result.actual_values) = 50
    /\ (model.oracle /\ metrics.kind = "metrics") =>
         /\ result.predictions = result.actual_values
         /\ metrics.samples = 50
         /\ metrics.accuracy_assessment.level = "Excellent"
         /\ metrics.accuracy_assessment.overall_score = 3

\* the forecast of the scenario, returned and evaluated; the actual values
\* are not constant
C20_Witness ==
  /\ Len(data) = 1000
  /\ input_size = 20
  /\ FromCsv
  /\ start_index = 100
  /\ prediction_steps = 50
  /\ pc = "returned"
  /\ model.oracle
  /\ metrics.kind = "metrics"
  /\ ~IsZero(metrics.data_range)

\* C21: every window handed to the model has exactly input_size samples,
\* at every step of the loop; a call of predict_sequence with an initial
\* sequence of another length is rejected with the ValueError of
\* predict_sequence before the model is called at all, whatever steps is.
C21_WindowLength ==
  /\ \A i \in DOMAIN windows : Len(windows[i]) = input_size
  /\ pc = "loop" => Len(current_sequence) = input_size
  /\ (op = "predict_sequence" /\ Len(initial_sequence) # input_size) =>
       /\ pc = "raised"
       /\ error = "ValueError: initial length"
       /\ windows = <<>>

\* a sequence longer than input_size was handed to predict_sequence
C21_Witness ==
  /\ op = "predict_sequence"
  /\ Len(initial_sequence) > input_size
  /\ pc = "raised"

\* the calls of the model so far and the predictions they produced
CallsInStepOrder ==
  \A k \in DOMAIN predictions :
    /\ k <= Len(windows)
    /\ ~ModelRaises(windows[k])
    /\ predictions[k] = (WeightedSum(windows[k], input_size) + model.bias)
                           % Modulus

\* C22: a forecast terminates; when the model does not raise it is called
\* exactly steps times, the k-th call producing prediction k, and with
\* steps = 0 it is not called at all.
C22_Terminates ==
  /\ [](/\ CallsInStepOrder
        /\ pc = "loop" => Len(windows) = Len(predictions)
        /\ pc = "returned" =>
             /\ Len(windows) = prediction_steps
             /\ Len(predictions) = prediction_steps
             /\ prediction_steps = 0 => windows = <<>>)
  /\ (pc = "loop") ~> (pc \in {"returned", "raised"})

\* a forecast of MaxSteps steps has returned after MaxSteps calls of the
\* model
C22_Witness ==
  /\ pc = "returned"
  /\ prediction_steps = MaxSteps
  /\ Len(windows) = MaxSteps
  /\ windows[1] # windows[MaxSteps]

IsNaN(x) == x.k = "nan"

\* C23: a metric that is NaN scores 0 and raises nothing, so an assessment
\* with a NaN correlation, r_squared, normalized_rmse or mae_ratio has
\* overall_score 0 and the level Insufficient.
C23_NaNScoresZero ==
  assessment # NoAssessment =>
    /\ IsNaN(assess_input.correlation) => assessment.correlation_score = 0
    /\ IsNaN(assess_input.r_squared) => assessment.r_squared_score = 0
    /\ IsNaN(assess_input.normalized_rmse) =>
         assessment.normalized_rmse_score = 0
    /\ IsNaN(assessment.mae_ratio) => assessment.mae_ratio_score = 0
    /\ (\/ IsNaN(assess_input.correlation)
        \/ IsNaN(assess_input.r_squared)
        \/ IsNaN(assess_input.normalized_rmse)
        \/ IsNaN(assessment.mae_ratio)) =>
         /\ assessment.overall_score = 0
         /\ assessment.level = "Insufficient"
         /\ ~assessment.acceptable

\* an assessment whose only flaw is a NaN mae_ratio
C23_Witness ==
  /\ assessment # NoAssessment
  /\ IsNaN(assessment.mae_ratio)
  /\ assessment.correlation_score = 3
  /\ assessment.r_squared_score = 3
  /\ assessment.normalized_rmse_score = 3
  /\ assessment.overall_score = 0

\* C24: when the actual values of the overlap are constant (one sample
\* included) data_range is 0; whenever data_range is 0, normalized_rmse
\* and mae_ratio are +inf, their scores are 0 and the assessment is
\* overall_score 0, Insufficient, not acceptable, also for predictions
\* equal to the actual values.
C24_ConstantInsufficient ==
  metrics.kind = "metrics" =>
    /\ (ConstantActual \/ Overlap = 1) => IsZero(metrics.data_range)
    /\ IsZero(metrics.data_range) =>
         /\ metrics.normalized_rmse = PosInf
         /\ metrics.accuracy_assessment.mae_ratio = PosInf
         /\ metrics.accuracy_assessment.normalized_rmse_score = 0
         /\ metrics.accuracy_assessment.mae_ratio_score = 0
         /\ metrics.accuracy_assessment.overall_score = 0
         /\ metrics.accuracy_assessment.level = "Insufficient"
         /\ ~metrics.accuracy_assessment.acceptable

\* constant actual values of more than one sample, predicted exactly
C24_Witness ==
  /\ metrics.kind = "metrics"
  /\ Overlap > 1
  /\ ConstantActual
  /\ evaluated[1] = evaluated[2]
  /\ IsZero(metrics.rmse)
  /\ metrics.accuracy_assessment.level = "Insufficient"

\* the epochs run so far
Epochs == 1..Len(training.val_loss)

\* the epoch with the lowest validation loss, the earliest of them
BestEpoch ==
  CHOOSE b \in Epochs :
    /\ \A k \in Epochs : training.val_loss[b] <= training.val_loss[k]
    /\ \A k \in 1..(b - 1) : training.val_loss[k] > training.val_loss[b]

\* the weights the model carries
ModelWeights == training.heap[training.model_ref]

\* C25: when train has returned, the model carries the weights it had at
\* the end of the epoch with the lowest validation loss, whatever the
\* later epochs did to it.
C25_BestWeights ==
  training.pc = "returned" => ModelWeights = training.epoch_weights[BestEpoch]

\* the lowest validation loss of the first k epochs, float('inf') for none
RECURSIVE MinValLoss(_)
MinValLoss(k) ==
  IF k = 0 THEN InfLoss ELSE Min2(MinValLoss(k - 1), training.val_loss[k])

\* epoch k strictly improved on every epoch before it
ImprovedAt(k) == training.val_loss[k] < MinValLoss(k - 1)

\* the number of consecutive epochs without improvement that end at epoch n
Stale(n) ==
  CHOOSE j \in 0..n :
    /\ \A k \in (n - j + 1)..n : ~ImprovedAt(k)
    /\ j < n => ImprovedAt(n - j)

Completed ==
  /\ cli.model_exists
  /\ pc = "returned"
  /\ metrics.kind = "metrics"

\* C27: predict_mode returns success (exit code 0) whenever the forecast
\* and the evaluation both completed, also with fewer actual values than
\* predictions, and failure only when the model file is missing or one of
\* the two raised.
C27_SuccessIffCompleted ==
  cli.pc = "done" =>
    /\ cli.success <=> Completed
    /\ cli.exit_code = 0 <=> Completed
====
